---- MODULE Spec2Model ----
(***************************************************************************)
(* Model of src/osm_relation_id.py: class OSM_RelationID_Finder.            *)
(*                                                                         *)
(* Strings are sequences of one-character strings, so that str.lower() and  *)
(* str.startswith() are computed character by character.  A Python dict is  *)
(* a sequence of <<key, value>> pairs with distinct keys, in insertion      *)
(* order.  An optional value (None / NaN) is the empty sequence, a present  *)
(* value v is <<v>>.  Relation identifiers are opaque: "" is the            *)
(* placeholder, "11", "22", ... stand for the integers of the city_id       *)
(* column.  json.dump / json.load keep string keys, string and integer      *)
(* values and key order, so a snapshot file holds the dict it was given.    *)
(***************************************************************************)
EXTENDS Integers, Sequences, FiniteSets, TLC

VARIABLES
    bound,              \* the attribute self.g_osm_relation_id exists
    g_osm_relation_id,  \* the in-memory table (meaningful when bound)
    fileExists,         \* datasets/g_osm_relation_id.json exists
    fileData,           \* the dict stored in that file
    merges,             \* number of update_country calls made so far
    last                \* the last call: its arguments and its outcome

vars == <<bound, g_osm_relation_id, fileExists, fileData, merges, last>>

\* Largest number of update_country calls in one run.
MaxMerges == 2

----------------------------------------------------------------------------
(* Strings *)

LowerChar(c) ==
    CASE c = "A" -> "a"
      [] c = "C" -> "c"
      [] c = "D" -> "d"
      [] c = "L" -> "l"
      [] c = "N" -> "n"
      [] c = "U" -> "u"
      [] c = "X" -> "x"
      [] c = "Z" -> "z"
      [] OTHER -> c

\* str.lower()
Lower(s) == [i \in 1..Len(s) |-> LowerChar(s[i])]

\* str.startswith(p)
StartsWith(s, p) == Len(p) <= Len(s) /\ SubSeq(s, 1, Len(p)) = p

\* f"{state.lower()}_state"
StateSentinel(state) == Lower(state) \o <<"_", "s", "t", "a", "t", "e">>

----------------------------------------------------------------------------
(* Python dicts, insertion ordered *)

Keys(d) == [i \in 1..Len(d) |-> d[i][1]]

KeySet(d) == {d[i][1] : i \in 1..Len(d)}

Has(d, k) == \E i \in 1..Len(d) : d[i][1] = k

Get(d, k) == d[CHOOSE i \in 1..Len(d) : d[i][1] = k][2]

\* d[k] = v : an existing key keeps its position, a new key goes last
Put(d, k, v) ==
    IF Has(d, k)
    THEN [i \in 1..Len(d) |-> IF d[i][1] = k THEN <<k, v>> ELSE d[i]]
    ELSE Append(d, <<k, v>>)

RECURSIVE DictUpdate(_, _)
\* {**a, **b}
DictUpdate(a, b) ==
    IF b = <<>> THEN a
    ELSE DictUpdate(Put(a, b[1][1], b[1][2]), Tail(b))

RECURSIVE Unique(_)
\* Series.unique(): distinct values in order of first appearance
Unique(s) ==
    IF s = <<>> THEN <<>>
    ELSE LET r == Unique(SubSeq(s, 1, Len(s) - 1))
             x == s[Len(s)]
         IN IF \E i \in 1..Len(r) : r[i] = x THEN r ELSE Append(r, x)

----------------------------------------------------------------------------
(* Names used as inputs *)

Us == <<"U", "s">>
us == <<"u", "s">>
Cn == <<"C", "n">>
cn == <<"c", "n">>
Xx == <<"X", "x">>
Ca == <<"C", "a">>
CA == <<"C", "A">>
ca == <<"c", "a">>
Ny == <<"N", "y">>
ny == <<"n", "y">>
La == <<"L", "a">>
LA == <<"L", "A">>
la == <<"l", "a">>
Lax == <<"L", "a", "x">>
lax == <<"l", "a", "x">>
Dc == <<"D", "c">>
Zz == <<"Z", "z">>
ca_state == <<"c", "a", "_", "s", "t", "a", "t", "e">>
ny_state == <<"n", "y", "_", "s", "t", "a", "t", "e">>

None == <<>>
Some(v) == <<v>>

\* one row of the csv file; a missing cell (NaN) is None
Row(country, state, city, id) ==
    [country_name |-> country, state_name |-> state, city_name |-> city,
     city_id |-> id]

\* the csv files offered to update_country
CsvFiles ==
    { \* two states sharing the city "la", a prefix pair "la"/"lax"
      << Row(Us, Some(Ca), Some(La), "11"), Row(Us, Some(Ca), Some(Lax), "22"),
         Row(Us, Some(Ny), Some(La), "33") >>,
      \* the same states in the other order
      << Row(Us, Some(Ny), Some(La), "33"), Row(Us, Some(Ca), Some(La), "11") >>,
      \* one state and a row without state_name
      << Row(Us, Some(Ny), Some(Lax), "22"), Row(Us, None, Some(Dc), "44") >>,
      \* only rows without state_name
      << Row(Us, None, Some(Dc), "44") >>,
      \* a city named like the state sentinel
      << Row(Cn, Some(Ca), Some(ca_state), "55"), Row(Cn, Some(Ca), Some(La), "11") >>,
      \* state names differing in case only, country already lower-cased
      << Row(us, Some(CA), Some(Lax), "22"), Row(us, Some(Ca), Some(La), "11") >>,
      \* the same city twice in a state, and a row of another country
      << Row(Cn, Some(Ny), Some(La), "33"), Row(Cn, Some(Ny), Some(LA), "44"),
         Row(Us, Some(Ca), Some(Lax), "22") >>,
      \* a row with a state but no city_name
      << Row(Us, Some(Ca), None, "11") >> }

\* the snapshots a run may start from
Snapshots ==
    { << <<us, << <<ca, << <<la, "11">>, <<ca_state, "">> >> >> >> >> >>,
      << <<us, << <<ca, << <<la, "11">>, <<lax, "22">>, <<ca_state, "">> >> >>,
                  <<ny, << <<la, "33">>, <<ny_state, "">> >> >> >> >>,
         <<cn, << <<ca, << <<lax, "22">>, <<ca_state, "55">> >> >> >> >> >> }

\* the arguments offered to find_osm_relation_id
Names == {<<>>, <<" ">>, La, la, <<"L">>, <<"C">>, Zz}
Countries == {Us, us, Cn, Xx}
States == {None, Some(<<>>), Some(Ca), Some(ca), Some(<<"C">>), Some(Zz)}

----------------------------------------------------------------------------
(* Outcomes *)

\* kind: the outcome; echo: the arguments quoted in the message or returned
\* text, as typed; ret: the returned value (None, or <<name, id>> for the text
\* "Relation id: {name}: {id}"); lines: the candidates printed, in order
Res(kind, echo, ret, lines) ==
    [kind |-> kind, echo |-> echo, ret |-> ret, lines |-> lines]

Call(op, rows, name, country, state, res) ==
    [op |-> op, rows |-> rows, name |-> name, country |-> country,
     state |-> state, res |-> res]

----------------------------------------------------------------------------
(* read_country_rid *)

\* df["state_name"].unique() without the NaN
states_name(rows) ==
    LET given == SelectSeq(rows, LAMBDA r : r.state_name # None)
    IN Unique([i \in 1..Len(given) |-> given[i].state_name[1]])

\* df[df["state_name"] == state]
df_state_single(rows, state) ==
    SelectSeq(rows, LAMBDA r : r.state_name = Some(state))

\* city_name.apply(lambda x: x.lower()) fails on a missing city_name
read_fails(rows) ==
    \E i \in 1..Len(rows) :
        rows[i].state_name # None /\ rows[i].city_name = None

\* mutant of state_entry: the "<state>_state" entry is made before the cities
state_entry_sentinel_first(rows, state) ==
    LET sel == df_state_single(rows, state)
    IN DictUpdate(<< <<StateSentinel(state), "">> >>, [i \in 1..Len(sel) |->
           <<Lower(sel[i].city_name[1]), sel[i].city_id>>])

\* dict(zip(city_name.lower(), city_id)), then the "<state>_state" entry
state_entry(rows, state) ==
    LET sel == df_state_single(rows, state)
        cities == DictUpdate(<<>>, [i \in 1..Len(sel) |->
                      <<Lower(sel[i].city_name[1]), sel[i].city_id>>])
    IN Put(cities, StateSentinel(state), "")

RECURSIVE country_rid_dict(_, _)
\* the loop over states_name, for the states not yet handled
country_rid_dict(rows, states) ==
    IF states = <<>> THEN <<>>
    ELSE LET n == Len(states)
         IN Put(country_rid_dict(rows, SubSeq(states, 1, n - 1)),
                Lower(states[n]), state_entry(rows, states[n]))

\* the country key: the first row's country_name, lower-cased
country_key(rows) == Lower(rows[1].country_name)

read_country_rid(rows) ==
    << <<country_key(rows), country_rid_dict(rows, states_name(rows))>> >>

----------------------------------------------------------------------------
(* find_osm_relation_id *)

\* "if state:" - neither None nor the empty string
state_given(state) == state # None /\ state[1] # <<>>

RECURSIVE ChainMapKeys(_)
\* ChainMap.__iter__: d = {}; for m in reversed(maps): d.update(fromkeys(m))
ChainMapKeys(maps) ==
    IF maps = <<>> THEN <<>>
    ELSE LET rest == ChainMapKeys(Tail(maps))
             new == SelectSeq(Keys(maps[1]),
                        LAMBDA k : \A i \in 1..Len(rest) : rest[i] # k)
         IN rest \o new

\* mutant of ChainMapGet: the last map holding the key answers
ChainMapGetLast(maps, k) ==
    Get(maps[CHOOSE i \in 1..Len(maps) :
                 /\ Has(maps[i], k)
                 /\ \A j \in (i + 1)..Len(maps) : ~Has(maps[j], k)], k)

\* ChainMap.__getitem__: the first map holding the key answers
ChainMapGet(maps, k) ==
    Get(maps[CHOOSE i \in 1..Len(maps) :
                 /\ Has(maps[i], k)
                 /\ \A j \in 1..(i - 1) : ~Has(maps[j], k)], k)

\* dict(ChainMap(*states_dict_list))
ChainMapDict(maps) ==
    LET ks == ChainMapKeys(maps)
    IN [i \in 1..Len(ks) |-> <<ks[i], ChainMapGet(maps, ks[i])>>]

\* the dict searched for the city: one state's, or all states' of the country
cites_dict(country_entry, state) ==
    IF ~state_given(state)
    THEN ChainMapDict([i \in 1..Len(country_entry) |-> country_entry[i][2]])
    ELSE Get(country_entry, Lower(state[1]))

\* [i for i in country.keys() if i.startswith(state.lower())]
start_with_state(country_entry, state) ==
    SelectSeq(Keys(country_entry), LAMBDA k : StartsWith(k, Lower(state[1])))

\* mutant of start_with_city: the name is compared as typed
start_with_city_as_typed(cites, name) ==
    SelectSeq(Keys(cites), LAMBDA k : StartsWith(k, name))

\* [i for i in cites_dict.keys() if i.startswith(name.lower())]
start_with_city(cites, name) ==
    SelectSeq(Keys(cites), LAMBDA k : StartsWith(k, Lower(name)))

\* "if not name"
name_missing(name) == name = <<>>

\* mutant of find_city: the prefix search comes before the exact lookup
find_city_prefix_first(cites, name) ==
    LET sw == start_with_city(cites, name)
    IN IF sw # <<>> /\ sw # <<Lower(name)>>
       THEN Res("Suggestions", <<name>>, None,
                [i \in 1..Len(sw) |-> <<sw[i], Get(cites, sw[i])>>])
       ELSE IF Has(cites, Lower(name))
       THEN Res("Found", <<name>>, <<name, Get(cites, Lower(name))>>, <<>>)
       ELSE Res("CityNotFound", <<name>>, None, <<>>)

\* Step 3, the city search in the dict cites
find_city(cites, name) ==
    IF Has(cites, Lower(name))
    THEN Res("Found", <<name>>, <<name, Get(cites, Lower(name))>>, <<>>)
    ELSE LET sw == start_with_city(cites, name)
         IN IF sw = <<>>
            THEN Res("CityNotFound", <<name>>, None, <<>>)
            ELSE Res("Suggestions", <<name>>, None,
                     [i \in 1..Len(sw) |-> <<sw[i], Get(cites, sw[i])>>])

\* mutant of find_in_country: a state prefix selects the first matching state
find_in_country_first_match(country_entry, name, country, state) ==
    IF state_given(state) /\ ~Has(country_entry, Lower(state[1]))
    THEN LET sw == start_with_state(country_entry, state)
         IN IF sw = <<>>
            THEN Res("StateNotFound", <<state[1], country>>, None, <<>>)
            ELSE find_city(Get(country_entry, sw[1]), name)
    ELSE find_city(cites_dict(country_entry, state), name)

\* Step 2 and 3, inside the country's entry
find_in_country(country_entry, name, country, state) ==
    IF state_given(state) /\ ~Has(country_entry, Lower(state[1]))
    THEN LET sw == start_with_state(country_entry, state)
         IN IF sw = <<>>
            THEN Res("StateNotFound", <<state[1], country>>, None, <<>>)
            ELSE Res("Suggestions", <<state[1], country>>, None,
                     [i \in 1..Len(sw) |-> <<sw[i]>>])
    ELSE find_city(cites_dict(country_entry, state), name)

\* mutant of find_result: the country is looked up as typed
find_result_country_as_typed(isBound, t, name, country, state) ==
    IF name_missing(name)
    THEN Res("EmptyQuery", <<>>, None, <<>>)
    ELSE IF ~isBound
    THEN Res("UNINITIALIZED", <<>>, None, <<>>)
    ELSE IF ~Has(t, country)
    THEN Res("CountryNotFound", <<country>>, None, <<>>)
    ELSE find_in_country(Get(t, country), name, country, state)

\* mutant of find_result: the country is checked before the name
find_result_country_first(isBound, t, name, country, state) ==
    IF ~isBound
    THEN Res("UNINITIALIZED", <<>>, None, <<>>)
    ELSE IF ~Has(t, Lower(country))
    THEN Res("CountryNotFound", <<country>>, None, <<>>)
    ELSE IF name_missing(name)
    THEN Res("EmptyQuery", <<>>, None, <<>>)
    ELSE find_in_country(Get(t, Lower(country)), name, country, state)

\* the outcome of find_osm_relation_id(name, country, state) on the table t
find_result(isBound, t, name, country, state) ==
    IF name_missing(name)
    THEN Res("EmptyQuery", <<>>, None, <<>>)
    ELSE IF ~isBound
    THEN Res("UNINITIALIZED", <<>>, None, <<>>)
    ELSE IF ~Has(t, Lower(country))
    THEN Res("CountryNotFound", <<country>>, None, <<>>)
    ELSE find_in_country(Get(t, Lower(country)), name, country, state)

----------------------------------------------------------------------------
(* The finder object and its methods *)

Ok == Res("ok", <<>>, None, <<>>)

NoCall == Call("none", <<>>, <<>>, <<>>, None, Ok)

\* mutant of _dict2json: nothing is written
_dict2json_skipped(data) ==
    UNCHANGED <<fileExists, fileData>>

\* json.dump(data, f) on the snapshot file
_dict2json(data) ==
    /\ fileExists' = TRUE
    /\ fileData' = data

\* json.load(f) of the snapshot file into self.g_osm_relation_id
_init_osm_relation_id ==
    /\ fileExists
    /\ bound' = TRUE
    /\ g_osm_relation_id' = fileData

\* __init__: a missing snapshot is reported and leaves the table unbound
OSM_RelationID_Finder ==
    /\ \/ _init_osm_relation_id /\ last' = Call("init", <<>>, <<>>, <<>>, None, Ok)
       \/ /\ ~fileExists
          /\ bound' = FALSE
          /\ g_osm_relation_id' = <<>>
          /\ last' = Call("init", <<>>, <<>>, <<>>, None,
                          Res("FileNotFound", <<>>, None, <<>>))
    /\ UNCHANGED <<fileExists, fileData, merges>>

available_country ==
    /\ last' = Call("available_country", <<>>, <<>>, <<>>, None,
                    IF bound
                    THEN Res("ok", <<>>, Keys(g_osm_relation_id), <<>>)
                    ELSE Res("UNINITIALIZED", <<>>, None, <<>>))
    /\ UNCHANGED <<bound, g_osm_relation_id, fileExists, fileData, merges>>

\* mutant of merged: the states of a country already present are merged
merged_deep(t, country_dict) ==
    LET ck == country_dict[1][1]
    IN IF Has(t, ck)
       THEN Put(t, ck, DictUpdate(Get(t, ck), country_dict[1][2]))
       ELSE DictUpdate(t, country_dict)

\* line 112: self.g_osm_relation_id = {**self.g_osm_relation_id, **country_dict}
merged(t, country_dict) == DictUpdate(t, country_dict)

\* mutant of update_country: a missing table counts as an empty one
update_country_default_table(rows) ==
    /\ merges < MaxMerges
    /\ merges' = merges + 1
    /\ IF read_fails(rows)
       THEN /\ last' = Call("update_country", rows, <<>>, <<>>, None,
                            Res("RowError", <<>>, None, <<>>))
            /\ UNCHANGED <<bound, g_osm_relation_id, fileExists, fileData>>
       ELSE /\ g_osm_relation_id' = merged(g_osm_relation_id, read_country_rid(rows))
            /\ _dict2json(g_osm_relation_id')
            /\ last' = Call("update_country", rows, <<>>, <<>>, None, Ok)
            /\ bound' = TRUE

update_country(rows) ==
    /\ merges < MaxMerges
    /\ merges' = merges + 1
    /\ IF read_fails(rows)
       THEN /\ last' = Call("update_country", rows, <<>>, <<>>, None,
                            Res("RowError", <<>>, None, <<>>))
            /\ UNCHANGED <<bound, g_osm_relation_id, fileExists, fileData>>
       ELSE IF ~bound
       THEN /\ last' = Call("update_country", rows, <<>>, <<>>, None,
                            Res("UNINITIALIZED", <<>>, None, <<>>))
            /\ UNCHANGED <<bound, g_osm_relation_id, fileExists, fileData>>
       ELSE /\ g_osm_relation_id' = merged(g_osm_relation_id, read_country_rid(rows))
            /\ _dict2json(g_osm_relation_id')
            /\ last' = Call("update_country", rows, <<>>, <<>>, None, Ok)
            /\ UNCHANGED bound

find_osm_relation_id(name, country, state) ==
    /\ last' = Call("find_osm_relation_id", <<>>, name, country, state,
                    find_result(bound, g_osm_relation_id, name, country, state))
    /\ UNCHANGED <<bound, g_osm_relation_id, fileExists, fileData, merges>>

----------------------------------------------------------------------------

Init ==
    /\ \/ /\ fileExists = FALSE
          /\ fileData = <<>>
          /\ bound = FALSE
          /\ g_osm_relation_id = <<>>
       \/ /\ fileExists = TRUE
          /\ fileData \in Snapshots
          /\ bound = TRUE
          /\ g_osm_relation_id = fileData
    /\ merges = 0
    /\ last = NoCall

UpdateStep == \E rows \in CsvFiles : update_country(rows)

FindStep ==
    \E name \in Names, country \in Countries, state \in States :
        find_osm_relation_id(name, country, state)

Next ==
    \/ OSM_RelationID_Finder
    \/ available_country
    \/ UpdateStep
    \/ FindStep

Spec == Init /\ [][Next]_vars

----------------------------------------------------------------------------
(* Vocabulary of the properties, stated on the table itself *)

\* the last call was find_osm_relation_id with a name, on a loaded table
\* that holds the country
FindInCountry ==
    /\ last.op = "find_osm_relation_id"
    /\ last.name # <<>>
    /\ bound
    /\ Has(g_osm_relation_id, Lower(last.country))

QueriedCountry == Get(g_osm_relation_id, Lower(last.country))

\* ... and the call reached the city search: no state, or an exact state key
ReachedCitySearch ==
    /\ FindInCountry
    /\ state_given(last.state) => Has(QueriedCountry, Lower(last.state[1]))

\* the states searched, as positions in the country's entry
ScopeStates ==
    IF state_given(last.state)
    THEN {i \in 1..Len(QueriedCountry) : QueriedCountry[i][1] = Lower(last.state[1])}
    ELSE 1..Len(QueriedCountry)

ScopeKeys == UNION {KeySet(QueriedCountry[i][2]) : i \in ScopeStates}

\* the identifiers stored under key k in the states searched
StoredIds(k) ==
    {Get(QueriedCountry[i][2], k) :
        i \in {j \in ScopeStates : Has(QueriedCountry[j][2], k)}}

Range(seq) == {seq[i] : i \in 1..Len(seq)}

\* C1: when name.lower() is a key of the scope, the result is Found with the
\* identifier stored under that key, whatever other keys it is a prefix of.
C1_ExactMatchPrecedence ==
    (ReachedCitySearch /\ Lower(last.name) \in ScopeKeys)
        => /\ last.res.kind = "Found"
           /\ Len(last.res.ret) = 2
           /\ last.res.ret[2] \in StoredIds(Lower(last.name))
           /\ last.res.lines = <<>>

C1_Witness ==
    /\ ReachedCitySearch
    /\ Lower(last.name) \in ScopeKeys
    /\ \E k \in ScopeKeys : k # Lower(last.name) /\ StartsWith(k, Lower(last.name))
    /\ last.res.kind = "Found"

\* C2: when name.lower() is no key of the scope, the candidates listed are
\* exactly the scope keys starting with name.lower(), each once and with an
\* identifier stored under it; with no such key the call fails with
\* CityNotFound.
C2_PrefixFallbackComplete ==
    (ReachedCitySearch /\ Lower(last.name) \notin ScopeKeys)
        => LET matching == {k \in ScopeKeys : StartsWith(k, Lower(last.name))}
           IN IF matching = {}
              THEN last.res.kind = "CityNotFound"
              ELSE /\ last.res.kind = "Suggestions"
                   /\ last.res.ret = None
                   /\ Len(last.res.lines) = Cardinality(matching)
                   /\ {l[1] : l \in Range(last.res.lines)} = matching
                   /\ \A l \in Range(last.res.lines) :
                          Len(l) = 2 /\ l[2] \in StoredIds(l[1])

C2_Witness ==
    /\ ReachedCitySearch
    /\ Lower(last.name) \notin ScopeKeys
    /\ last.res.kind = "Suggestions"
    /\ \E l \in Range(last.res.lines) : l[1] = ca_state
    /\ \E k \in ScopeKeys : ~StartsWith(k, Lower(last.name))

MergeStep == merges' = merges + 1 /\ last'.res.kind = "ok"

\* the states and cities the rows name, lower-cased
RowStates(rows) ==
    {Lower(rows[i].state_name[1]) :
        i \in {j \in 1..Len(rows) : rows[j].state_name # None}}

RowCities(rows, sk) ==
    {Lower(rows[i].city_name[1]) :
        i \in {j \in 1..Len(rows) : /\ rows[j].state_name # None
                                    /\ Lower(rows[j].state_name[1]) = sk}}

\* C4: merging an import of a country already in the table replaces that
\* country's entry by the imported one (nothing of the old entry survives
\* unless the rows name it too) and leaves every other country as it was.
C4_MergeReplaces ==
    [][(MergeStep /\ Has(g_osm_relation_id, country_key(last'.rows)))
        => LET rows == last'.rows
               ck == country_key(rows)
               new == Get(g_osm_relation_id', ck)
           IN /\ Keys(g_osm_relation_id') = Keys(g_osm_relation_id)
              /\ \A k \in KeySet(g_osm_relation_id) :
                     k # ck => Get(g_osm_relation_id', k) = Get(g_osm_relation_id, k)
              /\ new = read_country_rid(rows)[1][2]
              /\ KeySet(new) = RowStates(rows)
              /\ \A sk \in KeySet(new) :
                     KeySet(Get(new, sk)) \subseteq
                         RowCities(rows, sk) \cup {sk \o <<"_", "s", "t", "a", "t", "e">>}
      ]_vars

C4_Witness ==
    /\ last.op = "update_country"
    /\ last.res.kind = "ok"
    /\ merges = 1
    /\ country_key(last.rows) = us
    /\ KeySet(Get(g_osm_relation_id, us)) = {ny}
    /\ Has(g_osm_relation_id, cn)

\* two argument texts that differ in letter case only
SameButCase(a, b) == Len(a) = Len(b) /\ Lower(a) = Lower(b)

SameStateButCase(a, b) ==
    \/ a = None /\ b = None
    \/ a # None /\ b # None /\ SameButCase(a[1], b[1])

\* the calls that differ from the last one in letter case only
CaseVariants ==
    {q \in Names \X Countries \X States :
        /\ SameButCase(q[1], last.name)
        /\ SameButCase(q[2], last.country)
        /\ SameStateButCase(q[3], last.state)}

IdOf(res) == IF res.kind = "Found" THEN <<res.ret[2]>> ELSE <<>>

Blank(name) == \A i \in 1..Len(name) : name[i] = " "

\* C6 as stated: an empty or blank name fails with EmptyQuery.
C6_BlankIsEmptyQuery ==
    (last.op = "find_osm_relation_id" /\ Blank(last.name))
        => last.res.kind = "EmptyQuery"

\* C6 amended: the empty name fails with EmptyQuery whatever the country, the
\* state and the table are, loaded or not; any other name, a blank one
\* included, passes the name check.
C6_EmptyNameIsEmptyQuery ==
    last.op = "find_osm_relation_id"
        => (last.res.kind = "EmptyQuery" <=> last.name = <<>>)

C6_Witness ==
    /\ last.op = "find_osm_relation_id"
    /\ last.name = <<>>
    /\ ~bound
    /\ last.country = Xx
    /\ last.res.kind = "EmptyQuery"

\* C7 as stated: a merge leaves the persisted snapshot as it was.
C7_MergeKeepsSnapshot ==
    [][MergeStep => UNCHANGED <<fileExists, fileData>>]_vars

\* C7 amended: update_country writes the merged table to the snapshot before
\* it returns, so after every merge that returned normally the snapshot holds
\* the merged table, and a fresh load yields the table after the merge.
C7_MergePersists ==
    (last.op = "update_country" /\ last.res.kind = "ok")
        => /\ fileExists
           /\ fileData = g_osm_relation_id
           /\ Get(fileData, country_key(last.rows)) = read_country_rid(last.rows)[1][2]

C7_Witness ==
    /\ last.op = "update_country"
    /\ last.res.kind = "ok"
    /\ fileData \notin Snapshots
    /\ fileData = g_osm_relation_id

\* the call recorded touches the table: every method but __init__, a find
\* without name and an update whose csv file cannot be read
TouchesTable(call) ==
    \/ call.op = "available_country"
    \/ call.op = "update_country" /\ ~read_fails(call.rows)
    \/ call.op = "find_osm_relation_id" /\ call.name # <<>>

\* C8: a finder constructed without snapshot has no table; from then on no
\* call binds one or writes a snapshot, and every call that touches the
\* table fails with UNINITIALIZED.
C8_UninitializedAbsorbing ==
    [][~bound => /\ ~bound'
                 /\ UNCHANGED <<fileExists, fileData>>
                 /\ TouchesTable(last') => last'.res.kind = "UNINITIALIZED"
      ]_vars

C8_Witness ==
    /\ ~bound
    /\ ~fileExists
    /\ merges = MaxMerges
    /\ last.op = "update_country"
    /\ last.res.kind = "UNINITIALIZED"

\* the states of the queried country that hold key k, as positions
StatesHolding(k) ==
    {i \in 1..Len(QueriedCountry) : Has(QueriedCountry[i][2], k)}

Max(S) == CHOOSE x \in S : \A y \in S : y <= x
Min(S) == CHOOSE x \in S : \A y \in S : x <= y

\* the identifiers a result reports, as <<key, identifier>> pairs
Reported ==
    IF last.res.kind = "Found"
    THEN {<<Lower(last.name), last.res.ret[2]>>}
    ELSE Range(last.res.lines)

\* a find without state, whose scope is the whole country
CountryWide == ReachedCitySearch /\ ~state_given(last.state)

\* C9 as stated: without a state, a key held by several states is reported
\* with the identifier of the last of them in table order.
C9_LastStateWins ==
    CountryWide
        => \A p \in Reported :
               p[2] = Get(QueriedCountry[Max(StatesHolding(p[1]))][2], p[1])

\* C9 amended: without a state the scope is the union of the city maps of
\* all states of the country, and a key held by several states is reported
\* with the identifier of the first of them in table order.
C9_FirstStateWins ==
    CountryWide
        => /\ KeySet(cites_dict(QueriedCountry, last.state)) =
                  UNION {KeySet(QueriedCountry[i][2]) : i \in 1..Len(QueriedCountry)}
           /\ \A p \in Reported :
                  p[2] = Get(QueriedCountry[Min(StatesHolding(p[1]))][2], p[1])

C9_Witness ==
    /\ CountryWide
    /\ last.res.kind = "Found"
    /\ Cardinality(StatesHolding(Lower(last.name))) = 2
    /\ Cardinality(StoredIds(Lower(last.name))) = 2

====
